---- MODULE Spec2Model ----
(***************************************************************************)
(* Behavioural-cloning trainer (ch10/behavioral_cloning/train.py).         *)
(*                                                                         *)
(* Two specifications over one set of variables:                           *)
(*   Spec      one run of create_datasets: read_data statement by          *)
(*             statement (load, inflate, shuffle, label, filter,           *)
(*             down-sample, return) followed by the train/validation       *)
(*             split;                                                      *)
(*   TrainSpec one program run: the module is loaded (line 73), then       *)
(*             train() runs its epochs; read_data appears here as a call   *)
(*             summary that returns parallel arrays of any length.         *)
(*                                                                         *)
(* A transition is [id, action]: id stands for the recorded state image    *)
(* (and the unused reward/terminal fields), action is the 3-vector.        *)
(* Class labels are 0-based as in the code, the sentinel is -1.            *)
(***************************************************************************)
EXTENDS Integers, Sequences, FiniteSets, TLC

VARIABLES
    pc,                     \* position of the single thread of control
    MULTIPLY_RARE_EVENTS,   \* module constant, line 22 (a run's configuration)
    file,                   \* content of data/data.gzip
    data,                   \* read_data: data
    states,                 \* read_data: states
    actions,                \* read_data: actions
    act_classes,            \* read_data: act_classes
    act_src,                \* history: id of the transition each label was derived from
    x_train, y_train,       \* create_datasets
    x_test, y_test,         \* create_datasets
    readCalls,              \* history: number of read_data invocations
    epoch,                  \* train: iterations of the epoch loop started
    batch,                  \* train_epoch / test: batches consumed in this pass
    mode,                   \* model.train() / model.eval()
    grad,                   \* parameter gradients: none, zero, fresh, stale, accumulated
    params,                 \* learned parameters, as the number of updates applied
    optSteps,               \* optimizer state, as the number of optimizer.step() calls
    zeroGrads,              \* history: optimizer.zero_grad() calls
    checkpoint,             \* content of data/model.pt (-1: no file)
    saves,                  \* history: torch.save calls
    trainPasses,            \* history: completed train_epoch calls
    testPasses              \* history: completed test calls

dataVars == <<MULTIPLY_RARE_EVENTS, file, data, actions>>
arrayVars == <<states, act_classes, act_src>>
splitVars == <<x_train, y_train, x_test, y_test>>
loopVars == <<epoch, batch, mode, grad, params, optSteps, zeroGrads,
              checkpoint, saves, trainPasses, testPasses>>
vars == <<pc, dataVars, arrayVars, splitVars, readCalls, loopVars>>

(***************************************************************************)
(* Bounds of the model.                                                    *)
(***************************************************************************)
MaxData == 2          \* transitions in an enumerated recording
MaxMultiply == 2      \* largest value of MULTIPLY_RARE_EVENTS explored
MaxInflated == 8      \* largest inflated collection explored
MaxSamples == 80      \* largest number of samples read_data returns in TrainSpec

(***************************************************************************)
(* Program constants.                                                      *)
(***************************************************************************)
BATCH_SIZE == 32
EPOCHS == 30
TRAIN_VAL_SPLIT_PERCENT == 85     \* TRAIN_VAL_SPLIT = 0.85
NO_CLASS == -1                    \* np.full(..., -1)

\* util.available_actions: the enumerated action patterns, in enumeration order.
available_actions ==
    << <<0, 0, 0>>, <<-1, 0, 0>>, <<-1, 0, 1>>, <<1, 0, 0>>,
       <<1, 0, 1>>, <<0, 1, 0>>, <<0, 0, 1>> >>

\* The three patterns of the inflation loop: left+brake, right+brake, brake.
RareEvents == << <<-1, 0, 1>>, <<1, 0, 1>>, <<0, 0, 1>> >>

\* The pattern of the down-sampled class.
ACCELERATE == <<0, 1, 0>>

\* An action vector the keyboard agent can record that is no enumerated pattern.
UNRECOGNIZED == <<1, 1, 0>>

(***************************************************************************)
(* numpy / list helpers, computed as the code computes them.               *)
(***************************************************************************)
\* np.array_equal(u, v) for two action vectors
array_equal(u, v) == Len(u) = Len(v) /\ \A j \in 1..Len(u) : u[j] = v[j]

\* np.any in place of np.all: a row matches when one component does
RowsEqualAny(acts, a) ==
    [k \in 1..Len(acts) |-> \E j \in 1..Len(a) : acts[k][j] = a[j]]

\* np.all(actions == a, axis=1): one boolean per row
RowsEqual(acts, a) ==
    [k \in 1..Len(acts) |-> \A j \in 1..Len(a) : acts[k][j] = a[j]]

\* arr[mask]: boolean-mask indexing keeps the rows whose mask entry is True
RECURSIVE MaskFrom(_, _, _)
MaskFrom(arr, mask, k) ==
    IF k > Len(arr) THEN <<>>
    ELSE (IF mask[k] THEN <<arr[k]>> ELSE <<>>) \o MaskFrom(arr, mask, k + 1)

Masked(arr, mask) == MaskFrom(arr, mask, 1)

\* available_actions.index(a), 0-based
IndexOf(a) ==
    (CHOOSE i \in 1..Len(available_actions) :
        /\ available_actions[i] = a
        /\ \A j \in 1..(i - 1) : available_actions[j] # a) - 1

\* (d,) * m
Repeat(d, m) == [j \in 1..m |-> d]

\* number of occurrences of an element in a sequence
Count(s, e) == Cardinality({k \in 1..Len(s) : s[k] = e})

(***************************************************************************)
(* read_data, lines 33-40: the inflation loops.                            *)
(***************************************************************************)
\* inner loop over the rare patterns for one transition d
RECURSIVE ExtraCopies(_, _, _)
ExtraCopies(d, m, i) ==
    IF i > Len(RareEvents) THEN <<>>
    ELSE (IF array_equal(d.action, RareEvents[i]) THEN Repeat(d, m) ELSE <<>>)
         \o ExtraCopies(d, m, i + 1)

\* outer loop over data, appending to data_copy
RECURSIVE InflateFrom(_, _, _, _)
InflateFrom(d, copy, m, k) ==
    IF k > Len(d) THEN copy
    ELSE InflateFrom(d, copy \o ExtraCopies(d[k], m, 1), m, k + 1)

\* an inflation that appends a single extra copy whatever the multiplier
InflatedByOne(d, m) == IF m > 1 THEN InflateFrom(d, d, 1, 1) ELSE d

Inflated(d, m) == IF m > 1 THEN InflateFrom(d, d, m, 1) ELSE d

(***************************************************************************)
(* random.shuffle, line 42: every arrangement of the list is an outcome.   *)
(***************************************************************************)
RemoveAt(s, i) == SubSeq(s, 1, i - 1) \o SubSeq(s, i + 1, Len(s))

FirstOccurrences(s) == {i \in 1..Len(s) : \A j \in 1..(i - 1) : s[j] # s[i]}

RECURSIVE Arrangements(_)
Arrangements(s) ==
    IF s = <<>> THEN {<<>>}
    ELSE UNION {{<<s[i]>> \o t : t \in Arrangements(RemoveAt(s, i))} :
                    i \in FirstOccurrences(s)}

(***************************************************************************)
(* read_data, lines 48-50: reverse one-hot.                                *)
(***************************************************************************)
RECURSIVE AssignClasses(_, _, _)
AssignClasses(cls, acts, i) ==
    IF i >= Len(available_actions) THEN cls
    ELSE AssignClasses(
            [k \in 1..Len(cls) |->
                IF RowsEqual(acts, available_actions[i + 1])[k] THEN i ELSE cls[k]],
            acts, i + 1)

ClassesOf(acts) == AssignClasses([k \in 1..Len(acts) |-> NO_CLASS], acts, 0)

(***************************************************************************)
(* read_data, lines 58-60: the down-sampling mask.  keep is drop_mask, one *)
(* boolean per accelerate sample, True where np.random.rand() > 0.7.       *)
(***************************************************************************)
AccelRank(cls, k) ==
    Cardinality({j \in 1..k : cls[j] = IndexOf(ACCELERATE)})

NonAccelMask(cls, keep) ==
    [k \in 1..Len(cls) |->
        IF cls[k] # IndexOf(ACCELERATE) THEN TRUE ELSE keep[AccelRank(cls, k)]]

(***************************************************************************)
(* Recordings the data file may hold.                                      *)
(***************************************************************************)
\* one pattern of each kind the code tells apart: a recognised pattern that is
\* neither rare nor accelerate, the three rare ones, accelerate, an unrecognised one
RecordedActions ==
    {<<0, 0, 0>>, <<-1, 0, 1>>, <<1, 0, 1>>, <<0, 0, 1>>, ACCELERATE, UNRECOGNIZED}

Recording(acts) == [k \in 1..Len(acts) |-> [id |-> k, action |-> acts[k]]]

\* the synthetic dataset of the end-to-end property
EndToEndData ==
    Recording(<< ACCELERATE, <<0, 0, 1>>, <<-1, 0, 1>>, UNRECOGNIZED >>)

Recordings ==
    {Recording(acts) : acts \in UNION {[1..n -> RecordedActions] : n \in 0..MaxData}}
        \cup {EndToEndData}

(***************************************************************************)
(* Initial states.  MULTIPLY_RARE_EVENTS is 30 in the file as shipped; the *)
(* code reads it only in the guard of line 33 and as the number of copies  *)
(* of line 38, and Spec explores the values 0..MaxMultiply.                *)
(***************************************************************************)
LoopInit ==
    /\ epoch = 0 /\ batch = 0 /\ mode = "train" /\ grad = "none"
    /\ params = 0 /\ optSteps = 0 /\ zeroGrads = 0
    /\ checkpoint = -1 /\ saves = 0 /\ trainPasses = 0 /\ testPasses = 0

LocalsInit ==
    /\ data = <<>> /\ states = <<>> /\ actions = <<>>
    /\ act_classes = <<>> /\ act_src = <<>>
    /\ x_train = <<>> /\ y_train = <<>> /\ x_test = <<>> /\ y_test = <<>>
    /\ readCalls = 0

Init ==
    /\ pc = "create_datasets"
    /\ MULTIPLY_RARE_EVENTS \in 0..MaxMultiply
    /\ file \in Recordings
    /\ Len(Inflated(file, MULTIPLY_RARE_EVENTS)) <= MaxInflated
    /\ LocalsInit
    /\ LoopInit

(***************************************************************************)
(* read_data, one action per statement group.                              *)
(***************************************************************************)
\* line 92 calling read_data; lines 27-28: data = pickle.load(f)
LoadData ==
    /\ pc = "create_datasets"
    /\ data' = file
    /\ readCalls' = readCalls + 1
    /\ pc' = "inflate"
    /\ UNCHANGED <<MULTIPLY_RARE_EVENTS, file, actions, arrayVars, splitVars, loopVars>>

\* lines 33-40
InflateRareEvents ==
    /\ pc = "inflate"
    /\ data' = Inflated(data, MULTIPLY_RARE_EVENTS)
    /\ pc' = "shuffle"
    /\ UNCHANGED <<MULTIPLY_RARE_EVENTS, file, actions, arrayVars, splitVars,
                   readCalls, loopVars>>

\* line 42
Shuffle ==
    /\ pc = "shuffle"
    /\ data' \in Arrangements(data)
    /\ pc' = "to_arrays"
    /\ UNCHANGED <<MULTIPLY_RARE_EVENTS, file, actions, arrayVars, splitVars,
                   readCalls, loopVars>>

\* line 45: zip(*data) of an empty list yields nothing to unpack
ToArrays ==
    /\ pc = "to_arrays"
    /\ IF data = <<>>
       THEN /\ pc' = "error"
            /\ UNCHANGED <<states, actions>>
       ELSE /\ states' = [k \in 1..Len(data) |-> data[k].id]
            /\ actions' = [k \in 1..Len(data) |-> data[k].action]
            /\ pc' = "classes"
    /\ UNCHANGED <<MULTIPLY_RARE_EVENTS, file, data, act_classes, act_src,
                   splitVars, readCalls, loopVars>>

\* lines 48-50
ActionsToClasses ==
    /\ pc = "classes"
    /\ act_classes' = ClassesOf(actions)
    /\ act_src' = [k \in 1..Len(data) |-> data[k].id]
    /\ pc' = "drop_non_actions"
    /\ UNCHANGED <<dataVars, states, splitVars, readCalls, loopVars>>

\* a filter that compares with class 0 instead of the sentinel
DropNonActionsZero ==
    /\ pc = "drop_non_actions"
    /\ LET mask == [k \in 1..Len(act_classes) |-> act_classes[k] # 0]
       IN  /\ states' = Masked(states, mask)
           /\ act_classes' = Masked(act_classes, mask)
           /\ act_src' = Masked(act_src, mask)
    /\ pc' = "drop_accelerations"
    /\ UNCHANGED <<dataVars, splitVars, readCalls, loopVars>>

\* a filter that leaves out line 54, so that states keeps every row
DropNonActionsLabelsOnly ==
    /\ pc = "drop_non_actions"
    /\ LET mask == [k \in 1..Len(act_classes) |-> act_classes[k] # NO_CLASS]
       IN  /\ act_classes' = Masked(act_classes, mask)
           /\ act_src' = Masked(act_src, mask)
    /\ pc' = "drop_accelerations"
    /\ UNCHANGED <<dataVars, states, splitVars, readCalls, loopVars>>

\* lines 53-54 and 57
DropNonActions ==
    /\ pc = "drop_non_actions"
    /\ LET mask == [k \in 1..Len(act_classes) |-> act_classes[k] # NO_CLASS]
       IN  /\ states' = Masked(states, mask)
           /\ act_classes' = Masked(act_classes, mask)
           /\ act_src' = Masked(act_src, mask)
    /\ pc' = "drop_accelerations"
    /\ UNCHANGED <<dataVars, splitVars, readCalls, loopVars>>

\* a down-sampling that takes the class after accelerate for the accelerate class
DropAccelerationsNextClass ==
    /\ pc = "drop_accelerations"
    /\ \E drop_mask \in [1..Count(act_classes, IndexOf(ACCELERATE) + 1) -> BOOLEAN] :
         LET rank(k) == Cardinality({j \in 1..k :
                                        act_classes[j] = IndexOf(ACCELERATE) + 1})
             non_accel == [k \in 1..Len(act_classes) |->
                             IF act_classes[k] # IndexOf(ACCELERATE) + 1 THEN TRUE
                             ELSE drop_mask[rank(k)]]
         IN  /\ states' = Masked(states, non_accel)
             /\ act_classes' = Masked(act_classes, non_accel)
             /\ act_src' = Masked(act_src, non_accel)
    /\ pc' = "return"
    /\ UNCHANGED <<dataVars, splitVars, readCalls, loopVars>>

\* lines 58-62
DropAccelerations ==
    /\ pc = "drop_accelerations"
    /\ \E drop_mask \in [1..Count(act_classes, IndexOf(ACCELERATE)) -> BOOLEAN] :
         LET non_accel == NonAccelMask(act_classes, drop_mask)
         IN  /\ states' = Masked(states, non_accel)
             /\ act_classes' = Masked(act_classes, non_accel)
             /\ act_src' = Masked(act_src, non_accel)
    /\ pc' = "return"
    /\ UNCHANGED <<dataVars, splitVars, readCalls, loopVars>>

\* lines 64-70: the counts are printed and the two arrays returned
ReturnArrays ==
    /\ pc = "return"
    /\ pc' = "split"
    /\ UNCHANGED <<dataVars, arrayVars, splitVars, readCalls, loopVars>>

(***************************************************************************)
(* create_datasets, lines 93-120.                                          *)
(***************************************************************************)
\* int(len(x) * TRAIN_VAL_SPLIT)
SplitPoint(n) == (n * TRAIN_VAL_SPLIT_PERCENT) \div 100

\* a split whose validation part starts one position late
CreateDatasetsGap ==
    /\ pc = "split"
    /\ x_train' = SubSeq(states, 1, SplitPoint(Len(states)))
    /\ y_train' = SubSeq(act_classes, 1, SplitPoint(Len(act_classes)))
    /\ x_test' = SubSeq(states, SplitPoint(Len(states)) + 2, Len(states))
    /\ y_test' = SubSeq(act_classes, SplitPoint(Len(act_classes)) + 2,
                        Len(act_classes))
    /\ pc' = "loaders"
    /\ UNCHANGED <<dataVars, arrayVars, readCalls, loopVars>>

CreateDatasets ==
    /\ pc = "split"
    /\ x_train' = SubSeq(states, 1, SplitPoint(Len(states)))
    /\ y_train' = SubSeq(act_classes, 1, SplitPoint(Len(act_classes)))
    /\ x_test' = SubSeq(states, SplitPoint(Len(states)) + 1, Len(states))
    /\ y_test' = SubSeq(act_classes, SplitPoint(Len(act_classes)) + 1,
                        Len(act_classes))
    /\ pc' = "loaders"
    /\ UNCHANGED <<dataVars, arrayVars, readCalls, loopVars>>

Next ==
    \/ LoadData
    \/ InflateRareEvents
    \/ Shuffle
    \/ ToArrays
    \/ ActionsToClasses
    \/ DropNonActions
    \/ DropAccelerations
    \/ ReturnArrays
    \/ CreateDatasets

Spec == Init /\ [][Next]_vars

(***************************************************************************)
(* The program run: module load, then train().                             *)
(***************************************************************************)
TrainInit ==
    /\ pc = "import"
    /\ MULTIPLY_RARE_EVENTS = 30
    /\ file = <<>>
    /\ LocalsInit
    /\ LoopInit

\* A call of read_data seen from its caller: it runs once more and returns
\* parallel arrays of some length n (sample k stands for itself, its label is
\* some class).  from = "import" is the call of line 73, whose result is
\* dropped; from = "create_datasets" is the call of line 92.
ReadDataCall(from, to) ==
    /\ pc = from
    /\ readCalls' = readCalls + 1
    /\ \E n \in 0..MaxSamples :
        /\ states' = [k \in 1..n |-> k]
        /\ act_classes' = [k \in 1..n |-> k % Len(available_actions)]
        /\ act_src' = [k \in 1..n |-> k]
    /\ pc' = to
    /\ UNCHANGED <<dataVars, splitVars, loopVars>>

\* lines 233-239: summary, loss function, optimizer, then create_datasets()
TrainBegin ==
    /\ pc = "train"
    /\ pc' = "create_datasets"
    /\ UNCHANGED <<dataVars, arrayVars, splitVars, readCalls, loopVars>>

\* len(data_loader) with batch_size = BATCH_SIZE and drop_last left False
NumBatches(n) == (n + BATCH_SIZE - 1) \div BATCH_SIZE

\* line 242: for epoch in range(EPOCHS)
EpochLoop ==
    /\ pc \in {"loaders", "epoch_loop"}
    /\ IF epoch < EPOCHS
       THEN /\ epoch' = epoch + 1
            /\ pc' = "train_epoch"
       ELSE /\ pc' = "done"
            /\ UNCHANGED epoch
    /\ UNCHANGED <<dataVars, arrayVars, splitVars, readCalls, batch, mode, grad,
                   params, optSteps, zeroGrads, checkpoint, saves, trainPasses,
                   testPasses>>

\* lines 164-167
TrainEpochBegin ==
    /\ pc = "train_epoch"
    /\ mode' = "train"
    /\ batch' = 0
    /\ pc' = "train_batch"
    /\ UNCHANGED <<dataVars, arrayVars, splitVars, readCalls, epoch, grad, params,
                   optSteps, zeroGrads, checkpoint, saves, trainPasses, testPasses>>

\* lines 170-176: the next batch is taken and the gradients are zeroed
ZeroGrad ==
    /\ pc = "train_batch"
    /\ batch < NumBatches(Len(x_train))
    /\ grad' = "zero"
    /\ zeroGrads' = zeroGrads + 1
    /\ pc' = "forward_backward"
    /\ UNCHANGED <<dataVars, arrayVars, splitVars, readCalls, epoch, batch, mode,
                   params, optSteps, checkpoint, saves, trainPasses, testPasses>>

\* lines 178-185: forward pass and loss.backward(), which adds to the gradients
ForwardBackward ==
    /\ pc = "forward_backward"
    /\ grad' = IF grad = "zero" THEN "fresh" ELSE "accumulated"
    /\ pc' = "optimizer_step"
    /\ UNCHANGED <<dataVars, arrayVars, splitVars, readCalls, epoch, batch, mode,
                   params, optSteps, zeroGrads, checkpoint, saves, trainPasses,
                   testPasses>>

\* lines 186-190: optimizer.step() and the running statistics
OptimizerStep ==
    /\ pc = "optimizer_step"
    /\ params' = params + 1
    /\ optSteps' = optSteps + 1
    /\ grad' = IF grad = "fresh" THEN "stale" ELSE grad
    /\ batch' = batch + 1
    /\ pc' = "train_batch"
    /\ UNCHANGED <<dataVars, arrayVars, splitVars, readCalls, epoch, mode,
                   zeroGrads, checkpoint, saves, trainPasses, testPasses>>

\* lines 192-195: the loop is exhausted; the averages divide by
\* len(data_loader.dataset), which raises on an empty training split
TrainEpochEnd ==
    /\ pc = "train_batch"
    /\ batch >= NumBatches(Len(x_train))
    /\ IF Len(x_train) = 0
       THEN /\ pc' = "error"
            /\ UNCHANGED trainPasses
       ELSE /\ pc' = "test"
            /\ trainPasses' = trainPasses + 1
    /\ UNCHANGED <<dataVars, arrayVars, splitVars, readCalls, epoch, batch, mode,
                   grad, params, optSteps, zeroGrads, checkpoint, saves, testPasses>>

\* lines 201-204
TestBegin ==
    /\ pc = "test"
    /\ mode' = "eval"
    /\ batch' = 0
    /\ pc' = "test_batch"
    /\ UNCHANGED <<dataVars, arrayVars, splitVars, readCalls, epoch, grad, params,
                   optSteps, zeroGrads, checkpoint, saves, trainPasses, testPasses>>

\* a test batch that also back-propagates and updates
TestBatchUpdating ==
    /\ pc = "test_batch"
    /\ batch < NumBatches(Len(x_test))
    /\ batch' = batch + 1
    /\ params' = params + 1
    /\ optSteps' = optSteps + 1
    /\ UNCHANGED <<pc, dataVars, arrayVars, splitVars, readCalls, epoch, mode, grad,
                   zeroGrads, checkpoint, saves, trainPasses, testPasses>>

\* lines 207-220: forward pass under set_grad_enabled(False) and statistics
TestBatch ==
    /\ pc = "test_batch"
    /\ batch < NumBatches(Len(x_test))
    /\ batch' = batch + 1
    /\ UNCHANGED <<pc, dataVars, arrayVars, splitVars, readCalls, epoch, mode, grad,
                   params, optSteps, zeroGrads, checkpoint, saves, trainPasses,
                   testPasses>>

\* lines 222-225: as in train_epoch, the averages divide by the split's length
TestEnd ==
    /\ pc = "test_batch"
    /\ batch >= NumBatches(Len(x_test))
    /\ IF Len(x_test) = 0
       THEN /\ pc' = "error"
            /\ UNCHANGED testPasses
       ELSE /\ pc' = "save"
            /\ testPasses' = testPasses + 1
    /\ UNCHANGED <<dataVars, arrayVars, splitVars, readCalls, epoch, batch, mode,
                   grad, params, optSteps, zeroGrads, checkpoint, saves, trainPasses>>

\* a save that keeps only the first checkpoint
SaveModelOnce ==
    /\ pc = "save"
    /\ checkpoint' = IF checkpoint = -1 THEN params ELSE checkpoint
    /\ saves' = IF checkpoint = -1 THEN saves + 1 ELSE saves
    /\ pc' = "epoch_loop"
    /\ UNCHANGED <<dataVars, arrayVars, splitVars, readCalls, epoch, batch, mode,
                   grad, params, optSteps, zeroGrads, trainPasses, testPasses>>

\* lines 249-250: torch.save(model.state_dict(), model_path)
SaveModel ==
    /\ pc = "save"
    /\ checkpoint' = params
    /\ saves' = saves + 1
    /\ pc' = "epoch_loop"
    /\ UNCHANGED <<dataVars, arrayVars, splitVars, readCalls, epoch, batch, mode,
                   grad, params, optSteps, zeroGrads, trainPasses, testPasses>>

TrainNext ==
    \/ ReadDataCall("import", "train")
    \/ TrainBegin
    \/ ReadDataCall("create_datasets", "split")
    \/ CreateDatasets
    \/ EpochLoop
    \/ TrainEpochBegin
    \/ ZeroGrad
    \/ ForwardBackward
    \/ OptimizerStep
    \/ TrainEpochEnd
    \/ TestBegin
    \/ TestBatch
    \/ TestEnd
    \/ SaveModel

TrainSpec == TrainInit /\ [][TrainNext]_vars

(***************************************************************************)
(* Properties.                                                             *)
(***************************************************************************)
Returned == pc \in {"return", "split", "loaders"}

\* a is one of the enumerated patterns
Recognized(a) == \E i \in 1..Len(available_actions) : available_actions[i] = a

\* a is one of the three rare patterns
Rare(a) == \E i \in 1..Len(RareEvents) : RareEvents[i] = a

\* copies of recorded transition t in a list of transitions
Copies(d, t) == Cardinality({k \in 1..Len(d) : d[k].id = t})

\* C1: every returned sample's label i satisfies available_actions[i] = the
\* action vector recorded with that sample's state, and no other index of the
\* (pairwise distinct) enumeration has that pattern.
C1_LabelIsThePattern ==
    Returned =>
        \A k \in 1..Len(act_classes) :
            LET i == act_classes[k]
                a == file[states[k]].action
            IN  /\ i \in 0..(Len(available_actions) - 1)
                /\ available_actions[i + 1] = a
                /\ \A j \in 0..(Len(available_actions) - 1) :
                       available_actions[j + 1] = a => j = i

C1_Witness ==
    /\ pc = "return"
    /\ Len(act_classes) >= 2
    /\ act_classes[1] # act_classes[2]

\* C2: after the filtering step no retained sample carries the sentinel -1;
\* every transition matching no enumerated pattern is gone from states and
\* from the labels, and every copy of a matching transition is still in both.
C2_SentinelFiltered ==
    /\ pc \in {"drop_accelerations", "return", "split", "loaders"} =>
           \A k \in 1..Len(act_classes) : act_classes[k] # NO_CLASS
    /\ pc = "drop_accelerations" =>
           /\ Len(act_classes) = Len(act_src)
           /\ \A t \in 1..Len(file) :
                  LET kept == IF Recognized(file[t].action)
                              THEN Copies(data, t) ELSE 0
                  IN  /\ Count(states, t) = kept
                      /\ Count(act_src, t) = kept

C2_Witness ==
    /\ pc = "drop_accelerations"
    /\ Len(states) > 0
    /\ Len(states) < Len(data)

\* C3: for every value of the multiplier, the collection after the inflation
\* step holds exactly 1 + multiplier copies of each transition whose action is
\* a rare pattern and exactly one copy of every other transition.
C3_InflationCopies ==
    pc = "shuffle" =>
        \A t \in 1..Len(file) :
            Copies(data, t) =
                IF Rare(file[t].action) THEN 1 + MULTIPLY_RARE_EVENTS ELSE 1

\* the (state, label) rows of classes other than accelerate, in array order
OtherRows(st, cls) ==
    Masked([k \in 1..Len(cls) |-> <<st[k], cls[k]>>],
           [k \in 1..Len(cls) |-> cls[k] # IndexOf(ACCELERATE)])

\* the states of the accelerate rows, in array order
AccelStates(st, cls) ==
    Masked(st, [k \in 1..Len(cls) |-> cls[k] = IndexOf(ACCELERATE)])

\* C4: whatever the random draws, the down-sampling step removes only
\* accelerate samples: the rows of every other class are the same before and
\* after it, and the accelerate rows after it are a selection of those before.
C4_OnlyAccelerateDropped ==
    [][pc = "drop_accelerations" =>
          /\ OtherRows(states', act_classes') = OtherRows(states, act_classes)
          /\ Len(states') = Len(act_classes')
          /\ \E keep \in [1..Len(AccelStates(states, act_classes)) -> BOOLEAN] :
                 AccelStates(states', act_classes') =
                     Masked(AccelStates(states, act_classes), keep)]_vars

C4_Witness ==
    /\ pc = "return"
    /\ \E t, u \in 1..Len(file) :
          /\ file[t].action = ACCELERATE
          /\ file[u].action = ACCELERATE
          /\ Count(states, t) = 1
          /\ Count(states, u) = 0

\* every returned label names the pattern recorded with its state
LabelsMatch ==
    /\ Len(states) = Len(act_classes)
    /\ \A k \in 1..Len(act_classes) :
           /\ act_classes[k] \in 0..(Len(available_actions) - 1)
           /\ available_actions[act_classes[k] + 1] = file[states[k]].action

\* C5 as stated: the four-transition dataset always yields exactly 3 samples,
\* one per recognised transition, with matching labels.
C5_ExactlyThree ==
    (pc = "return" /\ file = EndToEndData) =>
        /\ Len(states) = 3
        /\ \A t \in 1..3 : Count(states, t) = 1
        /\ LabelsMatch

\* C5 amended: on the four-transition dataset the unrecognised transition is
\* never returned, the brake and the left+brake transition are returned in
\* every copy the inflation step made (1 + multiplier each when the multiplier
\* exceeds 1), the accelerate transition at most once, and every returned
\* label matches.
C5_EndToEnd ==
    (pc = "return" /\ file = EndToEndData) =>
        /\ Count(states, 4) = 0
        /\ \A t \in {2, 3} :
               /\ Count(states, t) >= 1
               /\ Count(states, t) = Copies(data, t)
               /\ MULTIPLY_RARE_EVENTS > 1 =>
                      Count(states, t) = 1 + MULTIPLY_RARE_EVENTS
        /\ Count(states, 1) <= 1
        /\ LabelsMatch

C5_Witness ==
    /\ pc = "return"
    /\ file = EndToEndData
    /\ MULTIPLY_RARE_EVENTS = 2
    /\ Len(states) = 6

\* C6: states and act_classes have the same length and row k of both comes
\* from the same recorded transition, after each of the filtering steps and
\* at the return.
C6_ParallelArrays ==
    pc \in {"drop_non_actions", "drop_accelerations", "return", "split", "loaders"} =>
        /\ Len(states) = Len(act_classes)
        /\ Len(states) = Len(act_src)
        /\ \A k \in 1..Len(states) : states[k] = act_src[k]

C6_Witness ==
    /\ pc = "return"
    /\ Len(states) >= 2
    /\ Len(states) < Len(data)
    /\ states[1] > states[2]
    /\ act_classes[1] # act_classes[2]

\* C7: the epochs run one after the other; in each the training pass is
\* complete before validation starts and validation is complete before the
\* checkpoint is written; every epoch writes the checkpoint; a run that ends
\* normally has run EPOCHS epochs, written EPOCHS checkpoints and left the
\* last epoch's parameters in the file; a run ends early only by the error
\* of line 192 on an empty training split.
C7_EpochsInSequence ==
    /\ epoch \in 0..EPOCHS
    /\ pc \in {"train_epoch", "train_batch", "forward_backward", "optimizer_step"} =>
           trainPasses = epoch - 1 /\ testPasses = epoch - 1 /\ saves = epoch - 1
    /\ pc \in {"test", "test_batch"} =>
           trainPasses = epoch /\ testPasses = epoch - 1 /\ saves = epoch - 1
    /\ pc = "save" =>
           trainPasses = epoch /\ testPasses = epoch /\ saves = epoch - 1
    /\ pc = "epoch_loop" =>
           /\ trainPasses = epoch /\ testPasses = epoch /\ saves = epoch
           /\ checkpoint = params
    /\ pc = "done" =>
           /\ epoch = EPOCHS /\ trainPasses = EPOCHS /\ testPasses = EPOCHS
           /\ saves = EPOCHS
           /\ checkpoint = params
    /\ pc = "error" => Len(x_train) = 0
    /\ ~(ENABLED TrainNext) => pc \in {"done", "error"}

C7_Witness ==
    /\ pc = "done"
    /\ saves = EPOCHS
    /\ Len(x_train) > BATCH_SIZE

\* C8: read_data is invoked exactly once in a program run.
C8_ReadDataOnce ==
    /\ readCalls <= 1
    /\ pc \in {"split", "loaders", "done"} => readCalls = 1

\* C9: a step of the validation pass changes neither the parameters nor the
\* optimizer state nor the gradients; the optimizer steps only in the
\* training pass, once per batch, on gradients computed after a zeroing of
\* their own; a completed training pass has stepped once per training batch.
C9_TestLeavesParameters ==
    [][/\ pc \in {"test", "test_batch"} =>
             /\ params' = params /\ optSteps' = optSteps
             /\ grad' = grad /\ zeroGrads' = zeroGrads
       /\ (optSteps' # optSteps \/ params' # params) =>
             /\ pc = "optimizer_step" /\ mode = "train"
             /\ optSteps' = optSteps + 1 /\ params' = params + 1
             /\ grad = "fresh"
             /\ zeroGrads = optSteps + 1
       /\ (pc = "train_batch" /\ pc' = "test") =>
             optSteps = epoch * NumBatches(Len(x_train))]_vars

C9_Witness ==
    /\ pc = "save"
    /\ epoch = 2
    /\ NumBatches(Len(x_train)) = 3
    /\ optSteps = 6
    /\ params = 6

\* C10: with n samples and k = floor(n * 0.85), the training split is
\* positions 1..k and the validation split positions k+1..n of both arrays:
\* the splits are disjoint, cover all n samples and keep x and y aligned.
C10_SplitByPosition ==
    pc = "loaders" =>
        LET n == Len(states)
            k == CHOOSE j \in 0..n : 100 * j <= 85 * n /\ 100 * (j + 1) > 85 * n
        IN  /\ Len(act_classes) = n
            /\ x_train = [i \in 1..k |-> states[i]]
            /\ y_train = [i \in 1..k |-> act_classes[i]]
            /\ x_test = [i \in 1..(n - k) |-> states[k + i]]
            /\ y_test = [i \in 1..(n - k) |-> act_classes[k + i]]
            /\ x_train \o x_test = states
            /\ y_train \o y_test = act_classes

C10_Witness ==
    /\ pc = "loaders"
    /\ Len(states) = 7
    /\ Len(x_train) = 5
    /\ Len(x_test) = 2

====
